---- MODULE Spec2Model ----
(***************************************************************************)
(* Offer discovery / delivery pipeline of bot_auto_post.py.                *)
(*                                                                         *)
(* Text is modelled as TLA+ strings, character by character (Len, SubSeq   *)
(* and \o on strings).  The character alphabet is Latin-1: the characters  *)
(* the module's tables name.  Python None is the value NULL.               *)
(***************************************************************************)
EXTENDS Integers, Sequences, FiniteSets, TLC

\* Python None (a value no text of the model equals).
NULL == "<None>"

\* Python truthiness of an Optional[str]: neither None nor "".
Truthy(s) == s # NULL /\ s # ""

\* `x or ""`
OrEmpty(s) == IF s = NULL THEN "" ELSE s

(***************************************************************************)
(* Characters                                                              *)
(***************************************************************************)
\* s[i-1:i]: the character at position i (from 1), "" outside the text
Ch(s, i) == IF 1 <= i /\ i <= Len(s) THEN SubSeq(s, i, i) ELSE ""

NBSP == " "

DIGITS == "0123456789"
UPPER_AZ == "ABCDEFGHIJKLMNOPQRSTUVWXYZ"
LOWER_AZ == "abcdefghijklmnopqrstuvwxyz"
\* Accented letters of the alphabet, their lower-case forms and the base
\* letter NFKD decomposition followed by encode("ascii", "ignore") leaves.
UPPER_ACC == "ÁÀÂÃÉÊÍÓÔÕÚÇ"
LOWER_ACC == "áàâãéêíóôõúç"
BASE_UPPER_ACC == "AAAAEEIOOOUC"
BASE_LOWER_ACC == "aaaaeeiooouc"
\* (the backquote cannot be written in a TLA+ string: no text of the model holds one)
ASCII_PUNCT == " !#$%&'()*+,-./:;<=>?@[]^_{|}~\"\\\t\n\r"

InStr(c, s) == \E i \in 1..Len(s) : Ch(s, i) = c

IndexIn(c, s) == IF InStr(c, s) THEN CHOOSE i \in 1..Len(s) : Ch(s, i) = c ELSE 0

IsDigit(c) == c # "" /\ InStr(c, DIGITS)

\* str.isspace() / regex \s on the alphabet
IsSpace(c) == c \in {" ", "\t", "\n", "\r", NBSP}

IsAscii(c) == InStr(c, DIGITS) \/ InStr(c, UPPER_AZ) \/ InStr(c, LOWER_AZ) \/ InStr(c, ASCII_PUNCT)

\* regex class [A-Z]
IsUpperAZ(c) == c # "" /\ InStr(c, UPPER_AZ)

\* regex class [a-zà-ÿ] (U+00E0..U+00FF holds the lower-case accented letters and the sign ÷)
IsLowerRange(c) == c # "" /\ (InStr(c, LOWER_AZ) \/ InStr(c, LOWER_ACC) \/ c = "÷")

\* regex class [A-Za-zÀ-ÿ] (U+00C0..U+00FF also holds × and ÷)
IsLetterRange(c) ==
    c # "" /\ (InStr(c, LOWER_AZ) \/ InStr(c, UPPER_AZ) \/ InStr(c, LOWER_ACC)
               \/ InStr(c, UPPER_ACC) \/ c \in {"÷", "×"})

\* regex \w (Unicode): letters, digits, underscore; º and ª are letters (Lo)
IsWordChar(c) ==
    c # "" /\ (InStr(c, LOWER_AZ) \/ InStr(c, UPPER_AZ) \/ InStr(c, LOWER_ACC)
               \/ InStr(c, UPPER_ACC) \/ InStr(c, DIGITS) \/ c \in {"_", "º", "ª"})

\* one character of str.lower()
LowerCh(c) ==
    LET i == IndexIn(c, UPPER_AZ)
        j == IndexIn(c, UPPER_ACC)
    IN  IF i # 0 THEN Ch(LOWER_AZ, i)
        ELSE IF j # 0 THEN Ch(LOWER_ACC, j)
        ELSE c

\* one character of unicodedata.normalize("NFKD", s).encode("ascii", "ignore"):
\* an ASCII character stays, an accented letter keeps its base letter, the
\* no-break space and the ordinal signs have compatibility decompositions, any
\* other non-ASCII character is dropped.
AsciiFoldCh(c) ==
    LET i == IndexIn(c, LOWER_ACC)
        j == IndexIn(c, UPPER_ACC)
    IN  IF IsAscii(c) THEN c
        ELSE IF i # 0 THEN Ch(BASE_LOWER_ACC, i)
        ELSE IF j # 0 THEN Ch(BASE_UPPER_ACC, j)
        ELSE IF c = NBSP THEN " "
        ELSE IF c = "º" THEN "o"
        ELSE IF c = "ª" THEN "a"
        ELSE ""

(***************************************************************************)
(* str methods                                                             *)
(***************************************************************************)
\* "".join(E(i) for i in range(lo, hi + 1)), by halves (the recursion stays shallow)
RECURSIVE ConcatRange(_, _, _)
ConcatRange(E(_), lo, hi) ==
    IF lo > hi THEN ""
    ELSE IF lo = hi THEN E(lo)
    ELSE LET mid == (lo + hi) \div 2
         IN  ConcatRange(E, lo, mid) \o ConcatRange(E, mid + 1, hi)

\* "".join(F(c) for c in s)
MapStr(F(_), s) ==
    LET E(i) == F(Ch(s, i))
    IN  ConcatRange(E, 1, Len(s))

\* s.lower()
str_lower(s) == MapStr(LowerCh, s)

\* one character of str.upper()
UpperCh(c) ==
    LET i == IndexIn(c, LOWER_AZ)
        j == IndexIn(c, LOWER_ACC)
    IN  IF i # 0 THEN Ch(UPPER_AZ, i)
        ELSE IF j # 0 THEN Ch(UPPER_ACC, j)
        ELSE c

\* s.capitalize()
str_capitalize(s) == IF s = "" THEN "" ELSE UpperCh(Ch(s, 1)) \o str_lower(SubSeq(s, 2, Len(s)))

\* t in s
Contains(s, t) == \E i \in 1..(Len(s) - Len(t) + 1) : SubSeq(s, i, i + Len(t) - 1) = t

\* s[i:].startswith(t), i counted from 1
StartsAt(s, i, t) == i + Len(t) - 1 <= Len(s) /\ SubSeq(s, i, i + Len(t) - 1) = t

\* the same, ignoring case (re.IGNORECASE on a literal)
StartsAtI(s, i, t) ==
    i + Len(t) - 1 <= Len(s) /\ str_lower(SubSeq(s, i, i + Len(t) - 1)) = str_lower(t)

\* " ".join(s.split()): white space is dropped, and one space is put before the
\* first character of every word but the first
CollapseWs(s) ==
    LET E(i) ==
            IF IsSpace(Ch(s, i)) THEN ""
            ELSE IF IsSpace(Ch(s, i - 1)) /\ (\E j \in 1..(i - 1) : ~IsSpace(Ch(s, j)))
                 THEN " " \o Ch(s, i)
            ELSE Ch(s, i)
    IN  ConcatRange(E, 1, Len(s))

\* s.strip(chars)
Strip(s, chars) ==
    LET K == {i \in 1..Len(s) : ~InStr(Ch(s, i), chars)}
    IN  IF K = {} THEN ""
        ELSE SubSeq(s, CHOOSE i \in K : \A j \in K : i <= j,
                       CHOOSE i \in K : \A j \in K : i >= j)

WHITESPACE == " \t\n\r" \o NBSP

\* s.strip()
StripWs(s) == Strip(s, WHITESPACE)

\* the least member of a non-empty set of positions
MinOf(I) == CHOOSE i \in I : \A j \in I : i <= j

RECURSIVE ReplaceFrom(_, _, _, _)
ReplaceFrom(s, i, old, new) ==
    LET I == {j \in i..Len(s) : StartsAt(s, j, old)}
    IN  IF I = {} THEN SubSeq(s, i, Len(s))
        ELSE SubSeq(s, i, MinOf(I) - 1) \o new \o ReplaceFrom(s, MinOf(I) + Len(old), old, new)

\* s.replace(old, new), old non-empty
Replace(s, old, new) == ReplaceFrom(s, 1, old, new)

\* " ".join(filter(None, parts))
RECURSIVE JoinNonEmpty(_)
JoinNonEmpty(parts) ==
    IF parts = << >> THEN ""
    ELSE LET rest == JoinNonEmpty(Tail(parts))
         IN  IF Head(parts) = "" THEN rest
             ELSE IF rest = "" THEN Head(parts)
             ELSE Head(parts) \o " " \o rest

RECURSIVE SplitFrom(_, _, _)
SplitFrom(s, i, sep) ==
    LET I == {j \in i..Len(s) : Ch(s, j) = sep}
    IN  IF I = {} THEN << SubSeq(s, i, Len(s)) >>
        ELSE << SubSeq(s, i, MinOf(I) - 1) >> \o SplitFrom(s, MinOf(I) + 1, sep)

\* s.split(sep), sep one character
Split(s, sep) == SplitFrom(s, 1, sep)

\* end of the maximal run of characters satisfying P that starts at i (i - 1 when empty)
RunEnd(P(_), s, i) ==
    LET J == {j \in i..Len(s) : ~P(Ch(s, j))}
    IN  IF J = {} THEN Len(s) ELSE MinOf(J) - 1

(***************************************************************************)
(* _normalize_text                                                         *)
(***************************************************************************)
_normalize_text(s) ==
    IF ~Truthy(s) THEN ""
    ELSE CollapseWs(MapStr(AsciiFoldCh, str_lower(s)))

(***************************************************************************)
(* Configuration read from the environment at import time.  The module's   *)
(* globals are functions of the process environment env, a record of the   *)
(* variables os.getenv reads (NULL when unset); every operator that reads  *)
(* a global takes env as its first parameter.                              *)
(***************************************************************************)
ENV_UNSET == [FILTER_KEYWORDS |-> NULL, FILTER_BLACKLIST |-> NULL,
              AFF_AMAZON_TAG |-> NULL, AFF_KABUM |-> NULL, AFF_PICHAU |-> NULL]

DEFAULT_FILTER_KEYWORDS ==
    << "placa de video", "placa de vídeo", "placa mãe", "placa mae", "motherboard",
       "gpu", "rtx", "gtx", "radeon", "rx", "vga",
       "ssd", "nvme", "m.2", "m2", "hd", "hdd",
       "memoria ram", "memória ram", "ram", "ddr4", "ddr5",
       "processador", "cpu", "cooler", "dissipador", "heatsink",
       "fonte", "psu", "gabinete", "case", "ventoinha", "fan",
       "placa de som", "placa de rede", "ssd nvme", "ssd sata", "ssd m2", "m.2 ssd" >>

DEFAULT_FILTER_BLACKLIST ==
    << "notebook", "laptop", "monitor", "smartphone", "celular", "impressora",
       "televis", "tv", "geladeira", "airfryer", "console", "cadeira", "cadeirão",
       "game", "jogo", "figurine", "funko", "roupa", "sapato", "tênis", "tenis",
       "power bank", "powerbank", "barra de proteina", "proteina", "suplemento" >>

\* [k.strip().lower() for k in value.split(",") if k.strip()]
RECURSIVE StripLowerNonEmpty(_)
StripLowerNonEmpty(items) ==
    IF items = << >> THEN << >>
    ELSE LET k == Head(items)
         IN  (IF StripWs(k) # "" THEN << str_lower(StripWs(k)) >> ELSE << >>)
             \o StripLowerNonEmpty(Tail(items))

FILTER_KEYWORDS(env) ==
    IF Truthy(env.FILTER_KEYWORDS) THEN StripLowerNonEmpty(Split(env.FILTER_KEYWORDS, ","))
    ELSE DEFAULT_FILTER_KEYWORDS

FILTER_BLACKLIST(env) ==
    IF Truthy(env.FILTER_BLACKLIST) THEN StripLowerNonEmpty(Split(env.FILTER_BLACKLIST, ","))
    ELSE DEFAULT_FILTER_BLACKLIST

AFF_AMAZON_TAG(env) == env.AFF_AMAZON_TAG
AFF_KABUM(env) == env.AFF_KABUM
AFF_PICHAU(env) == env.AFF_PICHAU

(***************************************************************************)
(* Classifiers                                                             *)
(***************************************************************************)
\* the text both loops of is_relevant_offer search
RelevancePlain(title, extra_text, url) ==
    _normalize_text(JoinNonEmpty(<< OrEmpty(title), OrEmpty(extra_text), OrEmpty(url) >>))

\* the blacklist loop: a non-empty term, as stored, found in the normalized text
BlacklistHit(env, plain) ==
    \E n \in 1..Len(FILTER_BLACKLIST(env)) :
        FILTER_BLACKLIST(env)[n] # "" /\ Contains(plain, FILTER_BLACKLIST(env)[n])

\* the keyword loop: a term, normalized and non-empty, found in the normalized text
KeywordHit(env, plain) ==
    \E n \in 1..Len(FILTER_KEYWORDS(env)) :
        LET k == _normalize_text(FILTER_KEYWORDS(env)[n])
        IN  k # "" /\ Contains(plain, k)

is_relevant_offer(env, title, extra_text, url) ==
    LET plain == RelevancePlain(title, extra_text, url)
    IN  IF BlacklistHit(env, plain) THEN FALSE ELSE KeywordHit(env, plain)

TEST_MARKERS ==
    << "teste", "oferta de teste", "test offer", "dummy", "oferta teste",
       "insert_test", "oferta de teste automática", "oferta de teste automática" >>

is_test_offer(title) ==
    IF ~Truthy(title) THEN FALSE
    ELSE LET plain == _normalize_text(title)
         IN  \E n \in 1..Len(TEST_MARKERS) : Contains(plain, TEST_MARKERS[n])

(***************************************************************************)
(* Regular expressions, each as the match it finds at a position:          *)
(* the index of the match's last character, 0 when none starts there.      *)
(***************************************************************************)
Min2(a, b) == IF a <= b THEN a ELSE b

\* class [\.\d{3}] of PRICE_RE: a dot, a digit or a brace
IsPriceGroupCh(c) == c # "" /\ (IsDigit(c) \/ c \in {".", "{", "}"})

\* class [\d\.\s,] of PRICE_RANGE_RE and _PRICE_TOKENS_RE
IsPriceTokCh(c) == c # "" /\ (IsDigit(c) \/ IsSpace(c) \/ c \in {".", ","})

\* PRICE_RE = R\$\s?\d{1,3}(?:[\.\d{3}])*(?:,\d{2})?
PRICE_RE(s, i) ==
    IF ~StartsAt(s, i, "R$") THEN 0
    ELSE LET j == IF IsSpace(Ch(s, i + 2)) /\ IsDigit(Ch(s, i + 3)) THEN i + 3 ELSE i + 2
         IN  IF ~IsDigit(Ch(s, j)) THEN 0
             ELSE LET d == Min2(RunEnd(IsDigit, s, j), j + 2)
                      k == RunEnd(IsPriceGroupCh, s, d + 1)
                  IN  IF Ch(s, k + 1) = "," /\ IsDigit(Ch(s, k + 2)) /\ IsDigit(Ch(s, k + 3))
                      THEN k + 3 ELSE k

\* PRICE_RANGE_RE = de\s*R\$\s?[\d\.\s,]+?\s*por\s*R\$\s?[\d\.\s,]+ (IGNORECASE).
\* Between "R$" and "por" every character is of the class (white space is in
\* it) and there is at least one; the last run is greedy.
PRICE_RANGE_RE(s, i) ==
    IF ~StartsAtI(s, i, "de") THEN 0
    ELSE LET a == RunEnd(IsSpace, s, i + 2) + 1
         IN  IF ~StartsAtI(s, a, "R$") THEN 0
             ELSE LET r1 == RunEnd(IsPriceTokCh, s, a + 2)
                  IN  IF r1 < a + 2 \/ ~StartsAtI(s, r1 + 1, "por") THEN 0
                      ELSE LET b == RunEnd(IsSpace, s, r1 + 4) + 1
                           IN  IF ~StartsAtI(s, b, "R$") THEN 0
                               ELSE LET r2 == RunEnd(IsPriceTokCh, s, b + 2)
                                    IN  IF r2 < b + 2 THEN 0 ELSE r2

\* _PRICE_TOKENS_RE = (<the range> | R\$\s?[\d\.\s,]+) (IGNORECASE), the range tried first
_PRICE_TOKENS_RE(s, i) ==
    IF PRICE_RANGE_RE(s, i) # 0 THEN PRICE_RANGE_RE(s, i)
    ELSE IF ~StartsAtI(s, i, "R$") THEN 0
    ELSE LET r == RunEnd(IsPriceTokCh, s, i + 2)
         IN  IF r < i + 2 THEN 0 ELSE r

\* re.search: the leftmost position where the pattern matches, 0 when nowhere
Search(RE(_, _), s) ==
    LET I == {i \in 1..Len(s) : RE(s, i) # 0}
    IN  IF I = {} THEN 0 ELSE MinOf(I)

\* re.sub(pattern, "", s): every leftmost non-overlapping match removed
RECURSIVE SubRemove(_, _, _)
SubRemove(RE(_, _), s, i) ==
    LET I == {j \in i..Len(s) : RE(s, j) # 0}
    IN  IF I = {} THEN SubSeq(s, i, Len(s))
        ELSE SubSeq(s, i, MinOf(I) - 1) \o SubRemove(RE, s, RE(s, MinOf(I)) + 1)

\* \b before position i and after position j of a match made of word characters
WordBounded(s, i, j) == ~IsWordChar(Ch(s, i - 1)) /\ ~IsWordChar(Ch(s, j + 1))

\* the words the alternation spells: promo(ca|ç)ao is "promocaao" or "promoçao"
GENERIC_WORDS == << "oferta", "promocaao", "promoçao", "promo", "black friday", "flash sale", "ofertas" >>

\* GENERIC_TITLE_RE = \b(oferta|promo(ca|ç)ao|promo|black friday|flash sale|ofertas|oferta)\b
GENERIC_TITLE_RE(s, i) ==
    LET W == {n \in 1..Len(GENERIC_WORDS) :
                 /\ StartsAtI(s, i, GENERIC_WORDS[n])
                 /\ WordBounded(s, i, i + Len(GENERIC_WORDS[n]) - 1)}
    IN  IF W = {} THEN 0 ELSE i + Len(GENERIC_WORDS[CHOOSE n \in W : \A m \in W : n <= m]) - 1

looks_like_generic_title(title) ==
    IF ~Truthy(title) THEN TRUE
    ELSE LET t == _normalize_text(title)
         IN  IF Len(t) < 8 THEN TRUE
             ELSE Search(GENERIC_TITLE_RE, t) # 0

(***************************************************************************)
(* Text helpers                                                            *)
(***************************************************************************)
\* html.unescape on the entities the model's texts hold
ENTITIES == << << "&amp;", "&" >>, << "&nbsp;", NBSP >>, << "&quot;", "\"" >> >>

\* the entity that starts at position i (its index in ENTITIES), 0 when none
EntityAt(s, i) ==
    LET E == {n \in 1..Len(ENTITIES) : StartsAt(s, i, ENTITIES[n][1])}
    IN  IF E = {} THEN 0 ELSE MinOf(E)

RECURSIVE UnescapeFrom(_, _)
UnescapeFrom(s, i) ==
    LET I == {j \in i..Len(s) : EntityAt(s, j) # 0}
    IN  IF I = {} THEN SubSeq(s, i, Len(s))
        ELSE LET e == ENTITIES[EntityAt(s, MinOf(I))]
             IN  SubSeq(s, i, MinOf(I) - 1) \o e[2] \o UnescapeFrom(s, MinOf(I) + Len(e[1]))

html_unescape(s) == UnescapeFrom(s, 1)

clean_text(t) ==
    IF ~Truthy(t) THEN NULL
    ELSE LET s == CollapseWs(Replace(html_unescape(t), NBSP, " "))
         IN  IF StripWs(s) # "" THEN StripWs(s) ELSE NULL

extract_price_from_text(text) ==
    IF ~Truthy(text) THEN NULL
    ELSE LET txt == Replace(text, NBSP, " ")
             i == Search(PRICE_RE, txt)
         IN  IF i = 0 THEN NULL
             ELSE StripWs(Replace(SubSeq(txt, i, PRICE_RE(txt, i)), NBSP, " "))

extract_price_range(text) ==
    IF ~Truthy(text) THEN NULL
    ELSE LET txt == Replace(text, NBSP, " ")
             i == Search(PRICE_RANGE_RE, txt)
         IN  IF i # 0 THEN StripWs(CollapseWs(SubSeq(txt, i, PRICE_RANGE_RE(txt, i))))
             ELSE extract_price_from_text(txt)

\* the separator apply_affiliate puts before the parameter
AffSep(link) == IF Contains(link, "?") THEN "&" ELSE "?"

apply_affiliate(env, link, shop) ==
    IF ~Truthy(link) \/ ~Truthy(shop) THEN link
    ELSE IF Contains(link, "amazon.com.br") /\ Truthy(AFF_AMAZON_TAG(env)) /\ ~Contains(link, "tag=")
         THEN link \o AffSep(link) \o "tag=" \o AFF_AMAZON_TAG(env)
    ELSE IF Contains(link, "kabum.com.br") /\ Truthy(AFF_KABUM(env)) /\ ~Contains(link, "aff")
         THEN link \o AffSep(link) \o "aff=" \o AFF_KABUM(env)
    ELSE IF Contains(link, "pichau.com.br") /\ Truthy(AFF_PICHAU(env)) /\ ~Contains(link, "aff")
         THEN link \o AffSep(link) \o "aff=" \o AFF_PICHAU(env)
    ELSE link

(***************************************************************************)
(* clean_title_for_display                                                 *)
(***************************************************************************)
\* _PCT_NO_SPACE_RE.sub("% ", t): %(?=\S)
PctSpace(s) ==
    LET E(i) ==
            IF Ch(s, i) = "%" /\ Ch(s, i + 1) # "" /\ ~IsSpace(Ch(s, i + 1))
            THEN "% " ELSE Ch(s, i)
    IN  ConcatRange(E, 1, Len(s))

\* _CAMEL_SPLIT_RE.sub(" ", t): (?<=[a-zà-ÿ])(?=[A-Z])
CamelSplit(s) ==
    LET E(i) == Ch(s, i) \o (IF IsLowerRange(Ch(s, i)) /\ IsUpperAZ(Ch(s, i + 1)) THEN " " ELSE "")
    IN  ConcatRange(E, 1, Len(s))

\* _LETTER_DIGIT_RE.sub(" ", t): (?<=[A-Za-zÀ-ÿ])(?=\d)|(?<=\d)(?=[A-Za-zÀ-ÿ])
LetterDigitSplit(s) ==
    LET E(i) ==
            Ch(s, i) \o (IF \/ IsLetterRange(Ch(s, i)) /\ IsDigit(Ch(s, i + 1))
                            \/ IsDigit(Ch(s, i)) /\ IsLetterRange(Ch(s, i + 1))
                         THEN " " ELSE "")
    IN  ConcatRange(E, 1, Len(s))

\* \bDe:\s* (IGNORECASE)
DE_COLON_RE(s, i) ==
    IF StartsAtI(s, i, "de:") /\ ~IsWordChar(Ch(s, i - 1))
    THEN RunEnd(IsSpace, s, i + 3)
    ELSE 0

\* the characters t.strip(" -–—:;/") removes (the two long dashes are outside the alphabet)
TITLE_STRIP_CHARS == " -:;/"

clean_title_for_display(raw_title, price_text) ==
    LET t0 == StripWs(OrEmpty(raw_title))
    IN  IF t0 = "" THEN "Oferta"
        ELSE LET t1 == html_unescape(t0)
                 t2 == Replace(t1, NBSP, " ")
                 t3 == Replace(Replace(t2, "\r", " "), "\n", " ")
                 t4 == CollapseWs(t3)
                 t5 == PctSpace(t4)
                 t6 == CamelSplit(t5)
                 t7 == LetterDigitSplit(t6)
                 t8 == SubRemove(DE_COLON_RE, t7, 1)
                 t9 == SubRemove(_PRICE_TOKENS_RE, t8, 1)
                 t10 == StripWs(CollapseWs(t9))
                 t11 == Strip(t10, TITLE_STRIP_CHARS)
             IN  IF t11 # "" THEN t11
                 ELSE IF Truthy(raw_title) THEN raw_title ELSE "Oferta"

(***************************************************************************)
(* The offers table (init_db) and the DB helpers.  A table is the sequence *)
(* of its rows in insertion order; id is AUTOINCREMENT and no row is ever  *)
(* deleted, so the row with id n is the n-th.  The coupon column is        *)
(* written and never read by either loop: it is left out.                  *)
(***************************************************************************)
\* hashlib.sha256(url).hexdigest(): a digest that differs for different urls
sha256(url) == "sha256:" \o url

\* a table with no UNIQUE constraint: the INSERT never conflicts
NoUniqueConstraint(table, url) == FALSE

\* the UNIQUE constraints on url and hash: the INSERT raises sqlite3.IntegrityError
IntegrityError(table, url) ==
    \E n \in 1..Len(table) : table[n].url = url \/ table[n].hash = sha256(url)

\* The row INSERT INTO offers adds: posted takes its DEFAULT 0.
NewRow(table, source, title, url, price, shop, image_url, now) ==
    [id |-> Len(table) + 1, source |-> source, title |-> title, url |-> url,
     price |-> price, shop |-> shop, image_url |-> image_url, posted |-> 0,
     hash |-> sha256(url), discovered_at |-> now]

\* insert_offer on `table`, the clock reading `now`, and the store answering
\* db: "ok", or "error" for a sqlite3 error other than IntegrityError
\* (OperationalError: locked database, missing column, full disk).
\* ret is "True", "False", or "raised" when the exception leaves the function.
insert_offer(table, source, title, url, price, shop, image_url, now, db) ==
    IF ~Truthy(url) THEN [ret |-> "False", table |-> table]
    ELSE IF db = "error" THEN [ret |-> "raised", table |-> table]
    ELSE IF IntegrityError(table, url) THEN [ret |-> "False", table |-> table]
    ELSE [ret |-> "True",
          table |-> Append(table, NewRow(table, source, title, url, price, shop, image_url, now))]

\* the dict get_unposted_offers builds of a row
OfferDict(r) ==
    [id |-> r.id, title |-> r.title, url |-> r.url, price |-> r.price,
     shop |-> r.shop, image_url |-> r.image_url]

\* ORDER BY id ASC
RECURSIVE OrderById(_)
OrderById(rows) ==
    IF rows = {} THEN << >>
    ELSE LET first == CHOOSE r \in rows : \A q \in rows : r.id <= q.id
         IN  << first >> \o OrderById(rows \ {first})

\* ORDER BY discovered_at ASC over a set of rows (no two rows share a reading of the clock)
RECURSIVE OrderByDiscoveredAt(_)
OrderByDiscoveredAt(rows) ==
    IF rows = {} THEN << >>
    ELSE LET first == CHOOSE r \in rows : \A q \in rows : r.discovered_at <= q.discovered_at
         IN  << first >> \o OrderByDiscoveredAt(rows \ {first})

\* LIMIT ?
Limit(seq, limit) == SubSeq(seq, 1, Min2(limit, Len(seq)))

\* SELECT ... FROM offers WHERE posted = 0 ORDER BY discovered_at ASC LIMIT ?
get_unposted_offers(table, limit) ==
    LET unposted == {table[n] : n \in {m \in 1..Len(table) : table[m].posted = 0}}
        ordered == Limit(OrderByDiscoveredAt(unposted), limit)
    IN  [n \in 1..Len(ordered) |-> OfferDict(ordered[n])]

\* UPDATE offers SET posted = (id = ?): the flag of every other row is cleared
mark_only_as_posted(table, offer_id) ==
    [n \in 1..Len(table) |->
        [table[n] EXCEPT !.posted = IF table[n].id = offer_id THEN 1 ELSE 0]]

\* UPDATE offers SET posted = 1 WHERE id = ?
mark_as_posted(table, offer_id) ==
    [n \in 1..Len(table) |->
        IF table[n].id = offer_id THEN [table[n] EXCEPT !.posted = 1] ELSE table[n]]

(***************************************************************************)
(* Pages.  What BeautifulSoup and find_link_title_image hand a collector   *)
(* of one candidate block: the title, the link made absolute (NULL when    *)
(* the block has no usable href), the image, block.get_text(" ",           *)
(* strip=True), and page_title, the title fetch_product_title finds on the *)
(* product page when its fetch succeeds.  A candidate of collect_kabum and *)
(* collect_pichau is the ancestor of ANY string matching PRICE_RE, also of *)
(* a comment or script string, which get_text leaves out: the text of such *)
(* a block holds no price (K2).                                            *)
(***************************************************************************)
K1 == [src |-> "kabum", title |-> "SSD NVMe 1TB", link |-> "https://www.kabum.com.br/produto/1",
       image |-> NULL, text |-> "SSD NVMe 1TB R$499,00", page_title |-> NULL]
K2 == [src |-> "kabum", title |-> "Placa de Vídeo RTX 4060", link |-> "https://www.kabum.com.br/produto/2",
       image |-> NULL, text |-> "Placa de Vídeo RTX 4060", page_title |-> NULL]
K3 == [src |-> "kabum", title |-> "Notebook em oferta", link |-> "https://www.kabum.com.br/produto/abc",
       image |-> NULL, text |-> "Notebook em oferta R$ 999,00 49% OFF SSD", page_title |-> "Notebook Gamer 15 SSD"]
K5 == [src |-> "kabum", title |-> "Ver todas", link |-> NULL,
       image |-> NULL, text |-> "Ver todas R$ 10,00", page_title |-> NULL]
P1 == [src |-> "pichau", title |-> "Corsair Vengeance 16GB",
       link |-> "https://www.pichau.com.br/corsair-vengeance-16gb",
       image |-> NULL, text |-> "Corsair Vengeance 16GB Memória RAM DDR4 R$300,00", page_title |-> NULL]
A1 == [src |-> "amazon", title |-> "Fonte 650W 80 Plus", link |-> "https://www.amazon.com.br/dp/B0C1",
       image |-> "https://m.media-amazon.com/images/I/1.jpg",
       text |-> "Fonte 650W 80 Plus R$399,90", page_title |-> NULL]

BLOCKS == {K1, K2, K3, K5, P1, A1}

\* the process environment of the pipeline: no filter override, affiliate parameters set
PIPELINE_ENV == [ENV_UNSET EXCEPT !.AFF_AMAZON_TAG = "ofertas-20", !.AFF_KABUM = "bot1"]

\* the answers of fetch_product_title for a block's link: None (any failure) or the page's title
FetchedTitles(b) == {NULL, b.page_title}

\* `if looks_like_generic_title(title): real_title = await fetch_product_title(link, session)`:
\* the values real_title can hold after it, per block, computed once
REAL_TITLES ==
    [b \in BLOCKS |->
        IF looks_like_generic_title(IF b.src = "amazon" /\ Truthy(b.title) THEN clean_text(b.title) ELSE b.title)
        THEN FetchedTitles(b) ELSE {NULL}]

\* link.split("/")[-1]
LastSegment(link) == LET parts == Split(link, "/") IN parts[Len(parts)]

(***************************************************************************)
(* The body of a collector's candidate loop, up to the insert.             *)
(***************************************************************************)
\* price = extract_price_from_text(...); if price: price = price.replace("R$", "R$ ").strip()
BlockPrice(b) ==
    LET price == extract_price_from_text(OrEmpty(b.text))
    IN  IF Truthy(price) THEN StripWs(Replace(price, "R$", "R$ ")) ELSE price

\* the title after the generic-title substitution
ResolvedTitle(title, real_title) ==
    IF looks_like_generic_title(title) /\ Truthy(real_title) THEN real_title ELSE title

\* collect_kabum and collect_pichau (the same body): the title, price and verdict of a block with a link
CollectFields(env, b, real_title) ==
    LET title1 == ResolvedTitle(b.title, real_title)
        title == IF ~Truthy(title1)
                 THEN clean_text(Replace(Replace(LastSegment(b.link), "-", " "), ".html", ""))
                 ELSE title1
    IN  [title |-> title, price |-> BlockPrice(b),
         relevant |-> is_relevant_offer(env, title, b.text, b.link)]

\* collect_amazon: the title is the anchor's text cleaned, with no fallback to the link
CollectFieldsAmazon(env, b, real_title) ==
    LET title0 == IF Truthy(b.title) THEN clean_text(b.title) ELSE NULL
        title == ResolvedTitle(title0, real_title)
    IN  [title |-> title, price |-> BlockPrice(b),
         relevant |-> is_relevant_offer(env, title, b.text, b.link)]

\* the collector of the block's source
Collect(env, b, real_title) ==
    IF b.src = "amazon" THEN CollectFieldsAmazon(env, b, real_title)
    ELSE CollectFields(env, b, real_title)

\* Every block with every answer of the title fetch.
COLLECTED ==
    [b \in {c \in BLOCKS : Truthy(c.link)}, real_title \in UNION {FetchedTitles(c) : c \in BLOCKS} |->
        Collect(PIPELINE_ENV, b, real_title)]

SHOP == [kabum |-> "KaBuM", pichau |-> "Pichau", amazon |-> "Amazon"]
DEFAULT_TITLE == [kabum |-> "Oferta Kabum", pichau |-> "Oferta Pichau", amazon |-> "Oferta Amazon"]

\* the pages each collector fetches (its urls list)
KABUM_PAGES == 3
PICHAU_PAGES == 3
AMAZON_PAGES == 2
NumPages(src) == CASE src = "kabum" -> KABUM_PAGES [] src = "pichau" -> PICHAU_PAGES [] OTHER -> AMAZON_PAGES

(***************************************************************************)
(* The body of post_offers_loop for one offer, up to the send.             *)
(***************************************************************************)
\* what the steps of the body leave for the discards and the send
DeliveryRecord(env, title, url, price_text, shop, safe_title, shop_name) ==
    [test |-> is_test_offer(title),
     relevant |-> is_relevant_offer(env, title, "", url),
     price_text |-> price_text,
     \* the three lines of the message (their emoji are outside the alphabet)
     message |-> IF Truthy(price_text)
                 THEN "*OFERTA:* " \o safe_title \o "\n*Preço:* " \o price_text
                      \o "\n*Loja:* " \o shop_name
                 ELSE NULL,
     btn_url |-> apply_affiliate(env, url, shop)]

\* step 4: clean_title, safe_title and shop_name
DeliveryText(env, title, url, price_text, shop) ==
    DeliveryRecord(env, title, url, price_text, shop,
        StripWs(Replace(Replace(Replace(clean_title_for_display(title, price_text), "[", ""), "]", ""), "*", "")),
        str_capitalize(StripWs(IF Truthy(shop) THEN shop ELSE "Loja")))

\* step 3: comb_text and price_text
DeliveryPrice(env, title, url, price, shop) ==
    DeliveryText(env, title, url, extract_price_range(JoinNonEmpty(<< title, OrEmpty(price) >>)), shop)

\* title = (offer.get("title") or "").strip(); url = offer.get("url") or ""
DeliveryFields(env, title0, url0, price, shop) ==
    DeliveryPrice(env, StripWs(OrEmpty(title0)), OrEmpty(url0), price, shop)

(***************************************************************************)
(* insert_test_offer.py: one test record, its url made of the clock.       *)
(***************************************************************************)
TEST_TITLE == "Oferta de teste automática"
TEST_PRICE == "R$ 1,00"
TEST_SHOP == "Loja Teste"
TestUrl(now) == "https://exemplo.com/oferta-teste-" \o ToString(now)

\* Bounds of the model
MaxOffers == 2        \* rows the table may hold
BatchLimit == 1       \* stands for limit=10 of get_unposted_offers(limit=10)
MaxScriptRuns == 1    \* runs of insert_test_offer.py
SentCap == 2          \* successful sends counted per offer (the count saturates)

\* the readings of the clock rows can hold
Times == 1..(MaxOffers + MaxScriptRuns)

\* the script's url per reading, computed once
TEST_URLS == [t \in Times |-> TestUrl(t)]

\* the (title, url, price, shop) insert_offer is given of a block
StoredContent(b, f) ==
    << (IF Truthy(f.title) THEN f.title ELSE DEFAULT_TITLE[b.src]), b.link, f.price, SHOP[b.src] >>

\* Every (title, url, price, shop) a row can hold, and what delivery computes of it.
Contents ==
    {StoredContent(b, Collect(PIPELINE_ENV, b, rt)) :
        b \in {c \in BLOCKS : Truthy(c.link)}, rt \in UNION {FetchedTitles(c) : c \in BLOCKS}}
    \cup {<< TEST_TITLE, TEST_URLS[t], TEST_PRICE, TEST_SHOP >> : t \in Times}

DELIVERY == [k \in Contents |-> DeliveryFields(PIPELINE_ENV, k[1], k[2], k[3], k[4])]

\* The pure functions of the two loops on the texts of the pages: their results
\* are computed once, when the process starts, and looked up from then on.
MEMO == [real_titles |-> REAL_TITLES, collected |-> COLLECTED, delivery |-> DELIVERY]

(***************************************************************************)
(* State of the running process (main: periodic_collect and                *)
(* post_offers_loop under asyncio.gather) and of insert_test_offer.py, a   *)
(* process of its own on the same database.  A task runs without           *)
(* interruption from one await to the next: an action is such a stretch,   *)
(* or one candidate of a collector's page.                                  *)
(***************************************************************************)
VARIABLES
    offers,     \* the offers table
    clock,      \* the last reading of datetime.now a row holds or a script run took
    c_src,      \* collector_job: "sleep" (periodic_collect's pause) or the collector running
    c_page,     \* ... the pages of its urls list fetched so far
    c_html,     \* ... whether the last fetch_text returned markup (its candidates are being worked)
    seen,       \* ... the collector's seen set of the page
    p_pc,       \* post_offers_loop: "poll", "offer", "send_photo" or "send_message"
    to_post,    \* ... the batch get_unposted_offers returned
    p_idx,      \* ... the position in the batch of the offer being worked
    s_now,      \* insert_test_offer.py: `now` of the run in progress, 0 when none
    s_runs,     \* ... runs started
    sent,       \* history: per offer id, the sends the channel accepted (up to SentCap)
    ev,         \* history: the last step taken
    memo,       \* the results of the pure functions on the pages' texts (never changes)
    fin,        \* arguments of the pure function under check (the function specifications)
    fout        \* ... its result

vars == << offers, clock, c_src, c_page, c_html, seen, p_pc, to_post, p_idx, s_now, s_runs, sent, ev, memo, fin, fout >>

Event(op, who, url, id, ret, why) ==
    [op |-> op, who |-> who, url |-> url, id |-> id, ret |-> ret, why |-> why]

\* the answers of the store to a statement
DB == {"ok", "error"}

\* the outcomes of an awaited bot.send_photo / bot.send_message
SEND == {"ok", "TelegramError", "Exception"}

\* after main's init_db, on a new database
InitPipeline ==
    /\ offers = << >>
    /\ clock = 0
    /\ c_src = "sleep" /\ c_page = 0 /\ c_html = FALSE /\ seen = {}
    /\ p_pc = "poll" /\ to_post = << >> /\ p_idx = 0
    /\ s_now = 0 /\ s_runs = 0
    /\ sent = << >>
    /\ ev = Event("init_db", "main", NULL, 0, NULL, NULL)

Init ==
    /\ InitPipeline
    /\ memo = MEMO
    /\ fin = NULL /\ fout = << >>

\* the offer's entry of the delivery table
Delivery(offer) == memo.delivery[<< offer.title, offer.url, offer.price, offer.shop >>]

(***************************************************************************)
(* Discovery: periodic_collect, collector_job, collect_*                   *)
(***************************************************************************)
\* periodic_collect wakes and collector_job enters collect_kabum
periodic_collect ==
    /\ c_src = "sleep"
    /\ c_src' = "kabum" /\ c_page' = 0 /\ c_html' = FALSE /\ seen' = {}
    /\ ev' = Event("collector_job", "main", NULL, 0, NULL, NULL)
    /\ UNCHANGED << offers, clock, p_pc, to_post, p_idx, s_now, s_runs, sent, memo, fin, fout >>

\* `for page in urls: html = await fetch_text(page, session)`: the candidates of
\* the page before are done; the next page is fetched, with or without success
fetch_text(ok) ==
    /\ c_src # "sleep"
    /\ c_page < NumPages(c_src)
    /\ c_page' = c_page + 1 /\ c_html' = ok /\ seen' = {}
    /\ ev' = Event("fetch_text", c_src, NULL, 0, IF ok THEN "html" ELSE "None", NULL)
    /\ UNCHANGED << offers, clock, c_src, p_pc, to_post, p_idx, s_now, s_runs, sent, memo, fin, fout >>

\* the collector's loop over its pages ends: collector_job goes on to the next
\* collector, and after collect_amazon periodic_collect sleeps
NextSource(src) == CASE src = "kabum" -> "pichau" [] src = "pichau" -> "amazon" [] OTHER -> "sleep"

end_of_pages ==
    /\ c_src # "sleep"
    /\ c_page = NumPages(c_src)
    /\ c_src' = NextSource(c_src) /\ c_page' = 0 /\ c_html' = FALSE /\ seen' = {}
    /\ ev' = Event("return", c_src, NULL, 0, NULL, NULL)
    /\ UNCHANGED << offers, clock, p_pc, to_post, p_idx, s_now, s_runs, sent, memo, fin, fout >>

\* the candidate is left (continue, or the filter's else branch): nothing is stored
SkipBlock(b, why, seen1) ==
    /\ seen' = seen1
    /\ ev' = Event("skip", c_src, b.link, 0, NULL, why)
    /\ UNCHANGED << offers, clock, c_src, c_page, c_html, p_pc, to_post, p_idx, s_now, s_runs, sent, memo, fin, fout >>

\* insert_offer is called, and its outcome: a new row, no row, or an exception,
\* which no collector catches: it ends collector_job's try block
InsertBlock(b, title, price, seen1, db) ==
    LET r == insert_offer(offers, c_src, IF Truthy(title) THEN title ELSE DEFAULT_TITLE[c_src],
                          b.link, price, SHOP[c_src], b.image, clock + 1, db)
    IN  /\ r.ret = "True" => Len(offers) < MaxOffers
        /\ offers' = r.table
        /\ clock' = IF r.ret = "True" THEN clock + 1 ELSE clock
        /\ sent' = IF r.ret = "True" THEN Append(sent, 0) ELSE sent
        /\ ev' = Event("insert_offer", c_src, b.link, IF r.ret = "True" THEN Len(r.table) ELSE 0,
                       r.ret, IF IntegrityError(offers, b.link) THEN "stored" ELSE "new")
        /\ IF r.ret = "raised"
           THEN c_src' = "sleep" /\ c_page' = 0 /\ c_html' = FALSE /\ seen' = {}
           ELSE seen' = seen1 /\ UNCHANGED << c_src, c_page, c_html >>
        /\ UNCHANGED << p_pc, to_post, p_idx, s_now, s_runs, memo, fin, fout >>

\* one candidate block of a page of collect_kabum or collect_pichau
collect_kabum_pichau(b, real_title, db) ==
    /\ c_src \in {"kabum", "pichau"} /\ c_html
    /\ b.src = c_src
    /\ IF ~Truthy(b.link) THEN real_title = NULL /\ db = "ok" /\ SkipBlock(b, "no link", seen)
       ELSE /\ real_title \in memo.real_titles[b]
            /\ LET f == memo.collected[b, real_title]
               IN  IF b.link \in seen THEN db = "ok" /\ SkipBlock(b, "seen", seen)
                   ELSE IF f.relevant
                        THEN InsertBlock(b, f.title, f.price, seen \cup {b.link}, db)
                        ELSE db = "ok" /\ SkipBlock(b, "filter", seen \cup {b.link})

\* one candidate of a page of collect_amazon (nothing is ever added to its seen set)
collect_amazon(b, real_title, db) ==
    /\ c_src = "amazon" /\ c_html
    /\ b.src = c_src
    /\ IF b.link \in seen THEN real_title = NULL /\ db = "ok" /\ SkipBlock(b, "seen", seen)
       ELSE /\ real_title \in memo.real_titles[b]
            /\ LET f == memo.collected[b, real_title]
               IN  IF f.relevant
                   THEN IF Truthy(f.price)
                        THEN InsertBlock(b, f.title, f.price, seen, db)
                        ELSE db = "ok" /\ SkipBlock(b, "no price", seen)
                   ELSE db = "ok" /\ SkipBlock(b, "filter", seen)

(***************************************************************************)
(* insert_test_offer.py                                                    *)
(***************************************************************************)
\* the script starts: `now = datetime.utcnow()` and the url made of it
script_now ==
    /\ s_now = 0 /\ s_runs < MaxScriptRuns
    /\ s_now' = clock + 1 /\ clock' = clock + 1 /\ s_runs' = s_runs + 1
    /\ ev' = Event("utcnow", "script", TEST_URLS[clock + 1], 0, NULL, NULL)
    /\ UNCHANGED << offers, c_src, c_page, c_html, seen, p_pc, to_post, p_idx, sent, memo, fin, fout >>

\* its INSERT, inside try / except Exception: any error is printed
script_insert(db) ==
    /\ s_now # 0
    /\ LET url == TEST_URLS[s_now]
           ok == db = "ok" /\ ~IntegrityError(offers, url)
       IN  /\ ok => Len(offers) < MaxOffers
           /\ offers' = IF ok
                        THEN Append(offers, NewRow(offers, "test", TEST_TITLE, url, TEST_PRICE,
                                                   TEST_SHOP, NULL, s_now))
                        ELSE offers
           /\ sent' = IF ok THEN Append(sent, 0) ELSE sent
           /\ ev' = Event("INSERT", "script", url, IF ok THEN Len(offers) + 1 ELSE 0,
                          IF ok THEN "inserted" ELSE "error", NULL)
    /\ s_now' = 0
    /\ UNCHANGED << clock, c_src, c_page, c_html, seen, p_pc, to_post, p_idx, s_runs, memo, fin, fout >>

(***************************************************************************)
(* Delivery: post_offers_loop                                              *)
(***************************************************************************)
\* the offer being worked
Offer == to_post[p_idx]

\* the for loop goes to its next offer, or past the last to the pause and the next poll
NextOffer ==
    IF p_idx < Len(to_post)
    THEN p_pc' = "offer" /\ p_idx' = p_idx + 1 /\ UNCHANGED to_post
    ELSE p_pc' = "poll" /\ p_idx' = 0 /\ to_post' = << >>

\* a while loop with no handler of its own: the exception leaves it
LoopExit == p_pc' = "exit" /\ p_idx' = 0 /\ to_post' = << >>

\* `except Exception` of the while loop: the batch is dropped, the loop polls again after its pause
LoopExcept == p_pc' = "poll" /\ p_idx' = 0 /\ to_post' = << >>

\* mark_as_posted(offer["id"]) and what follows it: the next offer, or the
\* loop's handler when the UPDATE raises
MarkAndGoOn(db) ==
    IF db = "ok"
    THEN offers' = mark_as_posted(offers, Offer.id) /\ NextOffer
    ELSE UNCHANGED offers /\ LoopExcept

\* to_post = get_unposted_offers(limit=10); an empty batch or an error: pause and poll again
poll(db) ==
    /\ p_pc = "poll"
    /\ LET batch == get_unposted_offers(offers, BatchLimit)
       IN  IF db = "ok" /\ batch # << >>
           THEN /\ to_post' = batch /\ p_idx' = 1 /\ p_pc' = "offer"
                /\ ev' = Event("get_unposted_offers", "poster", NULL, 0, "batch", NULL)
           ELSE /\ UNCHANGED << to_post, p_idx, p_pc >>
                /\ ev' = Event("get_unposted_offers", "poster", NULL, 0,
                               IF db = "ok" THEN "empty" ELSE "raised", NULL)
    /\ UNCHANGED << offers, clock, c_src, c_page, c_html, seen, s_now, s_runs, sent, memo, fin, fout >>

\* a loop that sends nothing: every offer is discarded as one without price
DiscardAll(offer) == "no price"

\* why the loop discards the offer without sending it, NULL when it does not
DiscardReason(offer) ==
    LET d == Delivery(offer)
    IN  IF d.test THEN "test"
        ELSE IF ~d.relevant THEN "relevance"
        ELSE IF ~Truthy(d.price_text) THEN "no price"
        ELSE NULL

\* steps 1 to 3 of the loop body: the offer is discarded and marked posted
discard(db) ==
    /\ p_pc = "offer"
    /\ DiscardReason(Offer) # NULL
    /\ MarkAndGoOn(db)
    /\ ev' = Event("discard", "poster", Offer.url, Offer.id,
                   IF db = "ok" THEN "marked" ELSE "raised", DiscardReason(Offer))
    /\ UNCHANGED << clock, c_src, c_page, c_html, seen, s_now, s_runs, sent, memo, fin, fout >>

\* steps 4 to 6: the message and the button are built and the send is awaited
compose ==
    /\ p_pc = "offer"
    /\ DiscardReason(Offer) = NULL
    /\ p_pc' = IF Truthy(Offer.image_url) THEN "send_photo" ELSE "send_message"
    /\ ev' = Event("compose", "poster", Delivery(Offer).btn_url, Offer.id, Delivery(Offer).message, NULL)
    /\ UNCHANGED << offers, clock, c_src, c_page, c_html, seen, to_post, p_idx, s_now, s_runs, sent, memo, fin, fout >>

\* the channel accepted the send
Accepted(id) == [sent EXCEPT ![id] = Min2(@ + 1, SentCap)]

\* bot.send_photo returns or raises
send_photo(result, db) ==
    /\ p_pc = "send_photo"
    /\ CASE result = "ok" ->
                /\ sent' = Accepted(Offer.id)
                /\ MarkAndGoOn(db)
                /\ ev' = Event("send_photo", "poster", Offer.url, Offer.id, "ok",
                               IF db = "ok" THEN "marked" ELSE "raised")
         [] result = "TelegramError" ->
                /\ db = "ok"
                /\ p_pc' = "send_message"
                /\ ev' = Event("send_photo", "poster", Offer.url, Offer.id, "TelegramError", "fallback")
                /\ UNCHANGED << offers, to_post, p_idx, sent >>
         [] OTHER ->
                /\ db = "ok"
                /\ LoopExcept
                /\ ev' = Event("send_photo", "poster", Offer.url, Offer.id, "Exception", "loop except")
                /\ UNCHANGED << offers, sent >>
    /\ UNCHANGED << clock, c_src, c_page, c_html, seen, s_now, s_runs, memo, fin, fout >>

\* bot.send_message (first choice of an offer with no image, fallback of one with) returns or raises
send_message(result, db) ==
    /\ p_pc = "send_message"
    /\ CASE result = "ok" ->
                /\ sent' = Accepted(Offer.id)
                /\ MarkAndGoOn(db)
                /\ ev' = Event("send_message", "poster", Offer.url, Offer.id, "ok",
                               IF db = "ok" THEN "marked" ELSE "raised")
         [] result = "TelegramError" ->
                /\ db = "ok"
                /\ NextOffer
                /\ ev' = Event("send_message", "poster", Offer.url, Offer.id, "TelegramError", "deferred")
                /\ UNCHANGED << offers, sent >>
         [] OTHER ->
                /\ db = "ok"
                /\ LoopExcept
                /\ ev' = Event("send_message", "poster", Offer.url, Offer.id, "Exception", "loop except")
                /\ UNCHANGED << offers, sent >>
    /\ UNCHANGED << clock, c_src, c_page, c_html, seen, s_now, s_runs, memo, fin, fout >>

Next ==
    \/ periodic_collect
    \/ \E ok \in BOOLEAN : fetch_text(ok)
    \/ end_of_pages
    \/ \E b \in BLOCKS, db \in DB : \E real_title \in memo.real_titles[b] : collect_kabum_pichau(b, real_title, db)
    \/ \E b \in BLOCKS, db \in DB : \E real_title \in memo.real_titles[b] : collect_amazon(b, real_title, db)
    \/ script_now
    \/ \E db \in DB : script_insert(db)
    \/ \E db \in DB : poll(db)
    \/ \E db \in DB : discard(db)
    \/ compose
    \/ \E result \in SEND, db \in DB : send_photo(result, db)
    \/ \E result \in SEND, db \in DB : send_message(result, db)

Spec == Init /\ [][Next]_vars

(***************************************************************************)
(* The main process alone (insert_test_offer.py is not run), its two tasks *)
(* scheduled fairly: asyncio.gather keeps periodic_collect and             *)
(* post_offers_loop on the event loop, every await of theirs returns or    *)
(* raises, and the for loop over a page's candidates is finite.            *)
(***************************************************************************)
\* the steps of periodic_collect / collector_job that move a collector on
CollectorStep ==
    \/ periodic_collect
    \/ \E ok \in BOOLEAN : fetch_text(ok)
    \/ end_of_pages

\* the steps of post_offers_loop
PosterStep ==
    \/ \E db \in DB : poll(db)
    \/ \E db \in DB : discard(db)
    \/ compose
    \/ \E result \in SEND, db \in DB : send_photo(result, db)
    \/ \E result \in SEND, db \in DB : send_message(result, db)

Fairness == WF_vars(CollectorStep) /\ WF_vars(PosterStep)

LiveNext ==
    \/ periodic_collect
    \/ \E ok \in BOOLEAN : fetch_text(ok)
    \/ end_of_pages
    \/ \E b \in BLOCKS, db \in DB : \E real_title \in memo.real_titles[b] : collect_kabum_pichau(b, real_title, db)
    \/ \E b \in BLOCKS, db \in DB : \E real_title \in memo.real_titles[b] : collect_amazon(b, real_title, db)
    \/ \E db \in DB : poll(db)
    \/ \E db \in DB : discard(db)
    \/ compose
    \/ \E result \in SEND, db \in DB : send_photo(result, db)
    \/ \E result \in SEND, db \in DB : send_message(result, db)

LiveSpec == Init /\ [][LiveNext]_vars /\ Fairness

(***************************************************************************)
(* The pure functions, each applied to arguments drawn at the start.       *)
(***************************************************************************)
\* is_relevant_offer under a process environment
RELEVANCE_ENVS ==
    { ENV_UNSET,
      [ENV_UNSET EXCEPT !.FILTER_BLACKLIST = "Tênis, Notebook"],
      [ENV_UNSET EXCEPT !.FILTER_BLACKLIST = "tenis,notebook"],
      [ENV_UNSET EXCEPT !.FILTER_KEYWORDS = "Cooler, Memória", !.FILTER_BLACKLIST = "Cadeirão"] }

RELEVANCE_TITLES ==
    { NULL, "Notebook em oferta", "Tênis com cooler", "SSD NVMe 1TB", "Cadeirão gamer RGB",
      "Monitor 24 com SSD", "Placa de Vídeo RTX 4060", "Mouse sem fio", "MEMÓRIA RAM DDR4" }

RELEVANCE_TEXTS == { NULL, "R$ 999,00 49% OFF SSD", "Memória RAM 16GB" }

RELEVANCE_URLS == { NULL, "https://www.kabum.com.br/produto/notebook-gamer" }

InitRelevance ==
    /\ InitPipeline
    /\ memo = NULL
    /\ fin \in [env : RELEVANCE_ENVS, title : RELEVANCE_TITLES,
                extra_text : RELEVANCE_TEXTS, url : RELEVANCE_URLS]
    /\ fout = << >>

call_is_relevant_offer ==
    /\ fout = << >>
    /\ fout' = << is_relevant_offer(fin.env, fin.title, fin.extra_text, fin.url) >>
    /\ UNCHANGED << fin, memo, offers, clock, c_src, c_page, c_html, seen, p_pc, to_post, p_idx, s_now, s_runs, sent, ev >>

NextRelevance == call_is_relevant_offer

SpecRelevance == InitRelevance /\ [][NextRelevance]_vars

\* apply_affiliate, on a link and on its own result
AFFILIATE_ENVS ==
    { ENV_UNSET,
      [ENV_UNSET EXCEPT !.AFF_AMAZON_TAG = "ofertas-20"],
      [ENV_UNSET EXCEPT !.AFF_KABUM = "bot1"],
      [ENV_UNSET EXCEPT !.AFF_AMAZON_TAG = "ofertas-20", !.AFF_KABUM = "bot1"],
      [ENV_UNSET EXCEPT !.AFF_AMAZON_TAG = "ofertas-20", !.AFF_KABUM = "bot1", !.AFF_PICHAU = "p9"] }

AFFILIATE_LINKS ==
    { NULL, "",
      "https://www.amazon.com.br/dp/B0C1",
      "https://www.amazon.com.br/dp/B0C1?th=1",
      "https://www.amazon.com.br/dp/B0C1?tag=outro-20",
      "https://www.amazon.com.br/gp/redirect?url=https://www.kabum.com.br/produto/1",
      "https://www.kabum.com.br/produto/1",
      "https://www.kabum.com.br/produto/1?aff=bot1",
      "https://www.pichau.com.br/corsair-vengeance-16gb",
      "https://exemplo.com/oferta" }

AFFILIATE_SHOPS == { NULL, "Amazon", "KaBuM", "Pichau" }

InitAffiliate ==
    /\ InitPipeline
    /\ memo = NULL
    /\ fin \in [env : AFFILIATE_ENVS, link : AFFILIATE_LINKS, shop : AFFILIATE_SHOPS]
    /\ fout = << >>

call_apply_affiliate ==
    /\ Len(fout) < 2
    /\ fout' = Append(fout, apply_affiliate(fin.env, IF fout = << >> THEN fin.link ELSE fout[1], fin.shop))
    /\ UNCHANGED << fin, memo, offers, clock, c_src, c_page, c_html, seen, p_pc, to_post, p_idx, s_now, s_runs, sent, ev >>

NextAffiliate == call_apply_affiliate

SpecAffiliate == InitAffiliate /\ [][NextAffiliate]_vars

\* clean_title_for_display
DISPLAY_TITLES ==
    { NULL, "", "   ", "SSD NVMe 1TB", "50% OFF Placa de Vídeo RTX", "Placa de Vídeo RTX 4060 R$ 1.999,00",
      "R$ 10,00", "De: R$ 599,00 por R$ 499,00", "Oferta Relâmpago", "SSD Kingston 480GB - Promoção",
      "Mouse Gamer&nbsp;RGB 20%OFF", "Cupom de desconto: Fonte 650W", "de R$ 100 por R$ 80 Teclado",
      " - ", "Memória RAM 16GB: " }

DISPLAY_PRICES == { NULL, "R$ 499,00", "de R$ 599,00 por R$ 499,00", "R$ 10,00" }

InitTitle ==
    /\ InitPipeline
    /\ memo = NULL
    /\ fin \in [raw_title : DISPLAY_TITLES, price_text : DISPLAY_PRICES]
    /\ fout = << >>

call_clean_title_for_display ==
    /\ fout = << >>
    /\ fout' = << clean_title_for_display(fin.raw_title, fin.price_text) >>
    /\ UNCHANGED << fin, memo, offers, clock, c_src, c_page, c_html, seen, p_pc, to_post, p_idx, s_now, s_runs, sent, ev >>

NextTitle == call_clean_title_for_display

SpecTitle == InitTitle /\ [][NextTitle]_vars

(***************************************************************************)
(* The promotional predicate of the specification (no function of the      *)
(* source computes it): the normalized text holds a percentage, a          *)
(* "de X por Y" price range, or a word of the promotional vocabulary.      *)
(***************************************************************************)
PROMO_VOCABULARY ==
    << "desconto", "oferta", "promocao", "promo", "% off", "off", "black friday",
       "cupom", "liquidacao", "discount", "deal", "sale" >>

\* \d+\s?% at position i
PercentAt(s, i) ==
    /\ IsDigit(Ch(s, i))
    /\ LET d == RunEnd(IsDigit, s, i)
       IN  Ch(s, d + 1) = "%" \/ (IsSpace(Ch(s, d + 1)) /\ Ch(s, d + 2) = "%")

HasPromoSignal(text) ==
    LET plain == _normalize_text(text)
    IN  \/ \E i \in 1..Len(plain) : PercentAt(plain, i)
        \/ Search(PRICE_RANGE_RE, plain) # 0
        \/ \E n \in 1..Len(PROMO_VOCABULARY) : Contains(plain, PROMO_VOCABULARY[n])

\* the predicate on the title and text of each candidate block, computed once
PROMOTIONAL == [b \in BLOCKS |-> HasPromoSignal(OrEmpty(b.title) \o " " \o OrEmpty(b.text))]

(***************************************************************************)
(* Properties of the pipeline                                              *)
(***************************************************************************)
COLLECTORS == {"kabum", "pichau", "amazon"}

\* C1: each url is stored at most once; an insert_offer the store executes of
\* a url already stored returns False and leaves the table (every record, the
\* count) as it was; of a new url it returns True and adds exactly one record,
\* with posted = 0, after the records there were.
C1_InsertIdempotent ==
    [][ /\ \A i, j \in 1..Len(offers') : offers'[i].url = offers'[j].url => i = j
        /\ (ev'.op = "insert_offer" /\ ev'.ret # "raised") =>
              IF \E n \in 1..Len(offers) : offers[n].url = ev'.url
              THEN ev'.ret = "False" /\ offers' = offers
              ELSE /\ ev'.ret = "True"
                   /\ Len(offers') = Len(offers) + 1
                   /\ SubSeq(offers', 1, Len(offers)) = offers
                   /\ offers'[Len(offers')].url = ev'.url
                   /\ offers'[Len(offers')].posted = 0
      ]_vars

\* a url stored and marked posted has been discovered again: insert_offer returned False
C1_Witness ==
    /\ ev.op = "insert_offer" /\ ev.ret = "False"
    /\ \E n \in 1..Len(offers) : offers[n].url = ev.url /\ offers[n].posted = 1
    /\ Len(offers) = MaxOffers

\* C2: every record discovery created holds a price
C2_NeverWithoutPrice ==
    \A n \in 1..Len(offers) : offers[n].source \in COLLECTORS => Truthy(offers[n].price)

\* C3: every record discovery created is of a candidate whose text passes the
\* relevance predicate and shows a promotional signal
C3_RelevantAndPromotional ==
    \A n \in 1..Len(offers) :
        offers[n].source \in COLLECTORS =>
            \E b \in BLOCKS :
                /\ b.link = offers[n].url
                /\ \E real_title \in REAL_TITLES[b] : COLLECTED[b, real_title].relevant
                /\ PROMOTIONAL[b]

\* C4: posted starts at 0, a record's flag never goes from 1 to 0, and no
\* record is deleted or replaced: the table only grows at its end, and a step
\* changes nothing of a record but posted, from 0 to 1.
C4_PostedMonotone ==
    [][ /\ Len(offers') >= Len(offers)
        /\ \A n \in 1..Len(offers) :
              /\ offers'[n].posted >= offers[n].posted
              /\ [offers'[n] EXCEPT !.posted = 0] = [offers[n] EXCEPT !.posted = 0]
        /\ \A n \in (Len(offers) + 1)..Len(offers') : offers'[n].posted = 0
      ]_vars

\* a posted record's url is discovered again, and the record stays posted
C4_Witness ==
    /\ ev.op = "insert_offer" /\ ev.why = "stored"
    /\ \E n \in 1..Len(offers) : offers[n].url = ev.url /\ offers[n].posted = 1

\* C5: a step sets a record's posted flag only if it is a send of that offer
\* the channel accepted, or the discard of that offer as a test record, as
\* irrelevant or as one with no price; a send that fails leaves the flag.
C5_PostedOnlyOnDeliveryOrDiscard ==
    [][ \A n \in 1..Len(offers) :
           /\ (offers[n].posted = 0 /\ offers'[n].posted = 1) =>
                 /\ ev'.id = n
                 /\ \/ ev'.op \in {"send_photo", "send_message"} /\ ev'.ret = "ok"
                    \/ /\ ev'.op = "discard"
                       /\ LET d == Delivery(offers[n])
                          IN  d.test \/ ~d.relevant \/ ~Truthy(d.price_text)
           /\ (ev'.op \in {"send_photo", "send_message"} /\ ev'.ret # "ok") =>
                 offers'[n].posted = offers[n].posted
      ]_vars

\* both sends of an offer with an image failed, and the offer is still unposted
C5_Witness ==
    /\ ev.op = "send_message" /\ ev.ret = "TelegramError"
    /\ Truthy(offers[ev.id].image_url)
    /\ offers[ev.id].posted = 0

\* C8: a call of insert_offer returns True or False whatever the store
\* answers, never raises; when it returns False the table is as it was; and
\* the collector is still on its page, on to the next candidate block.
C8_InsertNeverRaises ==
    [][ ev'.op = "insert_offer" =>
           /\ ev'.ret \in {"True", "False"}
           /\ ev'.ret = "False" => offers' = offers
           /\ c_src' = c_src /\ c_page' = c_page /\ c_html' = c_html
      ]_vars

\* C9: for every limit, get_unposted_offers returns records with posted = 0,
\* each once, oldest discovered_at first, as many as the limit allows, and none
\* left out is older than one returned; the loop's batch is that list for its limit.
C9_UnpostedOldestFirst ==
    /\ \A limit \in 0..(MaxOffers + 1) :
          LET r == get_unposted_offers(offers, limit)
              unposted == {n \in 1..Len(offers) : offers[n].posted = 0}
              at(i) == offers[r[i].id].discovered_at
          IN  /\ Len(r) = Min2(limit, Cardinality(unposted))
              /\ \A i \in 1..Len(r) : r[i].id \in unposted /\ r[i] = OfferDict(offers[r[i].id])
              /\ \A i, j \in 1..Len(r) : i < j => r[i].id # r[j].id /\ at(i) <= at(j)
              /\ \A i \in 1..Len(r) : \A n \in unposted :
                    offers[n].discovered_at < at(i) => \E j \in 1..Len(r) : r[j].id = n
    \* the loop has just polled (the poll leaves the table as it is)
    /\ (ev.op = "get_unposted_offers" /\ ev.ret = "batch") =>
          /\ to_post = get_unposted_offers(offers, BatchLimit)
          /\ Len(to_post) <= BatchLimit

\* more unposted records than the limit, and the batch holds the oldest, which is not the first inserted
C9_Witness ==
    /\ ev.op = "get_unposted_offers" /\ ev.ret = "batch"
    /\ Cardinality({n \in 1..Len(offers) : offers[n].posted = 0}) > BatchLimit
    /\ \E n \in 1..Len(offers) : offers[n].posted = 0 /\ n < to_post[1].id

(***************************************************************************)
(* Properties of the pure functions                                        *)
(***************************************************************************)
\* C6: when the combined text of title, extra text and url holds a term of the
\* blacklist and a term of the allowlist (as written, or accents and case
\* apart), is_relevant_offer returns False
C6_BlacklistPrecedence ==
    fout # << >> =>
        LET combined == JoinNonEmpty(<< OrEmpty(fin.title), OrEmpty(fin.extra_text), OrEmpty(fin.url) >>)
            black == FILTER_BLACKLIST(fin.env)
            allow == FILTER_KEYWORDS(fin.env)
            HoldsTerm(term) ==
                \/ Contains(str_lower(combined), term)
                \/ Contains(_normalize_text(combined), _normalize_text(term))
        IN  ( /\ \E n \in 1..Len(black) : HoldsTerm(black[n])
              /\ \E n \in 1..Len(allow) : HoldsTerm(allow[n]) )
            => fout[1] = FALSE

\* C7: apply_affiliate of its own result is that result; and what it returns
\* is the link, or the link with the parameter of a retailer that is
\* configured and that the link did not hold
C7_AffiliateIdempotent ==
    /\ Len(fout) = 2 => fout[2] = fout[1]
    /\ (Len(fout) >= 1 /\ fout[1] # fin.link) =>
          \/ /\ Truthy(AFF_AMAZON_TAG(fin.env)) /\ ~Contains(fin.link, "tag=")
             /\ fout[1] = fin.link \o AffSep(fin.link) \o "tag=" \o AFF_AMAZON_TAG(fin.env)
          \/ /\ Truthy(AFF_KABUM(fin.env)) /\ ~Contains(fin.link, "aff")
             /\ fout[1] = fin.link \o AffSep(fin.link) \o "aff=" \o AFF_KABUM(fin.env)
          \/ /\ Truthy(AFF_PICHAU(fin.env)) /\ ~Contains(fin.link, "aff")
             /\ fout[1] = fin.link \o AffSep(fin.link) \o "aff=" \o AFF_PICHAU(fin.env)

\* C10: the display title is not empty, and it is the placeholder "Oferta" or
\* it holds no percentage, no word of the promotional vocabulary and no price
C10_DisplayTitleClean ==
    fout # << >> =>
        LET t == fout[1]
            plain == _normalize_text(t)
        IN  /\ t # ""
            /\ \/ t = "Oferta"
               \/ /\ ~Contains(t, "%")
                  /\ \A n \in 1..Len(PROMO_VOCABULARY) : ~Contains(plain, PROMO_VOCABULARY[n])
                  /\ Search(_PRICE_TOKENS_RE, t) = 0
(***************************************************************************)
(* Properties of the two loops                                             *)
(***************************************************************************)
\* C11: a send_photo that fails is followed by the send_message of the same
\* offer, the batch and the position in it unchanged and nothing marked yet;
\* and an offer with an image whose send_message fallback ran is marked
\* posted by that step if and only if the fallback was accepted.
C11_PhotoFallback ==
    [][ /\ (ev'.op = "send_photo" /\ ev'.ret # "ok") =>
              /\ p_pc' = "send_message"
              /\ to_post' = to_post /\ p_idx' = p_idx
              /\ offers' = offers
        /\ (ev'.op = "send_message" /\ Truthy(Offer.image_url)) =>
              (offers'[Offer.id].posted = 1 <=> ev'.ret = "ok")
      ]_vars

\* the last step was a failure inside the discovery loop: a fetch that gave
\* nothing, or an exception out of a collector
DiscoveryFailed ==
    \/ ev.op = "fetch_text" /\ ev.ret = "None"
    \/ ev.op = "insert_offer" /\ ev.ret = "raised"

\* the last step was a failure inside the delivery loop: a send or a
\* statement of the store raised
DeliveryFailed ==
    /\ ev.who = "poster"
    /\ \/ ev.ret \in {"raised", "TelegramError", "Exception"}
       \/ ev.why = "raised"

\* C12: no failure inside an iteration ends a loop: after a failed fetch or an
\* exception out of a collector, periodic_collect starts collector_job again;
\* after a failed send or a store error in post_offers_loop, the loop polls
\* get_unposted_offers again.
C12_LoopsSurviveErrors ==
    /\ DiscoveryFailed ~> (ev.op = "collector_job")
    /\ DeliveryFailed ~> (ev.op = "get_unposted_offers")

\* the loop polls again after a send was accepted and mark_as_posted raised,
\* and a collection cycle that an exception ended has been followed by another
C12_Witness ==
    /\ ev.op = "get_unposted_offers"
    /\ \E n \in 1..Len(offers) : sent[n] >= 1 /\ offers[n].posted = 0
    /\ c_src # "sleep"

\* C13: a failure inside a collection cycle skips only the unit it hit: a
\* failed fetch leaves the collector on its source, and the cycle ends only
\* out of collect_amazon, the last of the three, so that whatever fails in
\* collect_kabum or collect_pichau, the sources after it still run.
C13_SiblingsProceed ==
    [][ /\ (ev'.op = "fetch_text" /\ ev'.ret = "None") => c_src' = c_src
        /\ (c_src # "sleep" /\ c_src' = "sleep") => c_src = "amazon"
      ]_vars

\* C14: no offer is delivered twice: of every record, the channel has
\* accepted at most one send (send_photo or send_message), over all the
\* iterations of the loop
C14_AtMostOnce ==
    \A n \in 1..Len(sent) : sent[n] <= 1

\* the last step was the loop's attempt on offer n, and it failed: the send
\* or the UPDATE of mark_as_posted raised
OwnAttemptFailed(n) ==
    /\ ev.who = "poster" /\ ev.id = n
    /\ ev.op \in {"discard", "send_photo", "send_message"}
    /\ (ev.ret \in {"raised", "TelegramError", "Exception"} \/ ev.why = "raised")

\* C15: no offer starves in delivery. As long as the store keeps answering
\* the loop's polls with a batch, every unposted offer is eventually marked
\* posted, unless an attempt on that offer itself fails, whatever happens
\* to the offers before it.
C15_NoStarvation ==
    ([]<>(ev.op = "get_unposted_offers" /\ ev.ret = "batch")) =>
        \A n \in 1..MaxOffers :
            (n <= Len(offers) /\ offers[n].posted = 0)
                ~> ((n <= Len(offers) /\ offers[n].posted = 1) \/ OwnAttemptFailed(n))

\* C16: the relevance check of the delivery loop agrees with the one of
\* discovery: every record a collector stored passes the loop's
\* is_relevant_offer(title, "", url), and the loop discards none of them for
\* relevance
C16_RecheckAgrees ==
    /\ \A n \in 1..Len(offers) : offers[n].source \in COLLECTORS => Delivery(offers[n]).relevant
    /\ ~(ev.op = "discard" /\ ev.why = "relevance")

====
